---- MODULE Spec2Model ----
(***************************************************************************)
(* newline-checker: a directory walk that classifies every file as text    *)
(* or binary and reports, or repairs, the text files whose last byte is    *)
(* not a line feed (src/main.go).                                          *)
(*                                                                         *)
(* Strings are sequences of one-character strings, byte buffers are        *)
(* sequences of numbers in 0..255.                                         *)
(***************************************************************************)
EXTENDS Integers, Sequences, FiniteSets, TLC

(***************************************************************************)
(* Bounds of the model.                                                    *)
(***************************************************************************)
\* longest run of one repeated byte in a generated file body
MaxBody == 1
\* calls of processRepository made one after the other on the same tree
MaxRuns == 2
\* most control bytes / other bytes in a buffer handed to isBinary alone
MaxCtl == 4
MaxTxt == 8
\* longest generated path handed to shouldSkipFile alone
MaxPathLen == 4

(***************************************************************************)
(* Byte values the code names.                                             *)
(***************************************************************************)
NUL == 0
TAB == 9
LF == 10
CR == 13
SPACE == 32

(***************************************************************************)
(* strings and path/filepath as shouldSkipFile and processRepository use   *)
(* them, on a platform whose path separator is the forward slash.          *)
(***************************************************************************)
Separator == "/"

UpperCase == <<"A", "B", "C", "D", "E", "F", "G", "H", "I", "J", "K", "L", "M", "N", "O", "P", "Q", "R", "S", "T", "U", "V", "W", "X", "Y", "Z">>
LowerCase == <<"a", "b", "c", "d", "e", "f", "g", "h", "i", "j", "k", "l", "m", "n", "o", "p", "q", "r", "s", "t", "u", "v", "w", "x", "y", "z">>

\* strings.ToLower, one character (ASCII)
ToLowerChar(c) ==
    IF \E i \in 1..Len(UpperCase) : UpperCase[i] = c
    THEN LowerCase[CHOOSE i \in 1..Len(UpperCase) : UpperCase[i] = c]
    ELSE c

\* strings.ToLower
ToLower(s) == [i \in 1..Len(s) |-> ToLowerChar(s[i])]

\* filepath.ToSlash: every separator becomes a forward slash
ToSlash(s) == [i \in 1..Len(s) |-> IF s[i] = Separator THEN "/" ELSE s[i]]

\* strings.HasPrefix
HasPrefix(s, p) == Len(s) >= Len(p) /\ SubSeq(s, 1, Len(p)) = p

\* strings.Split(s, "/"): the segments between the slashes, empty ones kept
RECURSIVE SplitFrom(_, _, _)
SplitFrom(s, i, cur) ==
    IF i > Len(s) THEN <<cur>>
    ELSE IF s[i] = "/" THEN <<cur>> \o SplitFrom(s, i + 1, <<>>)
    ELSE SplitFrom(s, i + 1, Append(cur, s[i]))

Split(s) == SplitFrom(s, 1, <<>>)

\* filepath.Ext: scan back from the end to the last dot of the final element
RECURSIVE ExtFrom(_, _)
ExtFrom(s, i) ==
    IF i < 1 \/ s[i] = Separator THEN <<>>
    ELSE IF s[i] = "." THEN SubSeq(s, i, Len(s))
    ELSE ExtFrom(s, i - 1)

Ext(s) == ExtFrom(s, Len(s))

\* filepath.Join of a directory and a name
Join(dir, name) == dir \o <<Separator>> \o name

\* filepath.Rel(base, targ) for the paths the walk hands out: base itself,
\* or base joined with a relative path
Rel(base, targ) ==
    IF targ = base THEN <<".">>
    ELSE SubSeq(targ, Len(base) + 2, Len(targ))

binaryExts ==
    << <<".", "e", "x", "e">>,
       <<".", "d", "l", "l">>,
       <<".", "s", "o">>,
       <<".", "d", "y", "l", "i", "b">>,
       <<".", "a">>,
       <<".", "o">>,
       <<".", "j", "p", "g">>,
       <<".", "j", "p", "e", "g">>,
       <<".", "p", "n", "g">>,
       <<".", "g", "i", "f">>,
       <<".", "b", "m", "p">>,
       <<".", "i", "c", "o">>,
       <<".", "s", "v", "g">>,
       <<".", "m", "p", "3">>,
       <<".", "m", "p", "4">>,
       <<".", "a", "v", "i">>,
       <<".", "m", "o", "v">>,
       <<".", "w", "a", "v">>,
       <<".", "z", "i", "p">>,
       <<".", "t", "a", "r">>,
       <<".", "g", "z">>,
       <<".", "b", "z", "2">>,
       <<".", "7", "z">>,
       <<".", "r", "a", "r">>,
       <<".", "p", "d", "f">>,
       <<".", "d", "o", "c">>,
       <<".", "d", "o", "c", "x">>,
       <<".", "x", "l", "s">>,
       <<".", "x", "l", "s", "x">>,
       <<".", "p", "y", "c">>,
       <<".", "p", "y", "o">>,
       <<".", "c", "l", "a", "s", "s">>,
       <<".", "j", "a", "r">>,
       <<".", "d", "b">>,
       <<".", "s", "q", "l", "i", "t", "e">>,
       <<".", "s", "q", "l", "i", "t", "e", "3">> >>

\* variant: the extension compared as written, without strings.ToLower
shouldSkipFileCaseSensitive(p) ==
    LET parts == Split(ToSlash(p))
        ext == Ext(p)
    IN  \/ \E k \in 1..Len(parts) : HasPrefix(parts[k], <<".">>) /\ parts[k] # <<".">>
        \/ \E k \in 1..Len(binaryExts) : ext = binaryExts[k]

\* shouldSkipFile (src/main.go:38)
shouldSkipFile(p) ==
    LET parts == Split(ToSlash(p))
        ext == ToLower(Ext(p))
    IN  \/ \E k \in 1..Len(parts) : HasPrefix(parts[k], <<".">>) /\ parts[k] # <<".">>
        \/ \E k \in 1..Len(binaryExts) : ext = binaryExts[k]

(***************************************************************************)
(* float64 arithmetic as isBinary uses it: the quotient of two integers,   *)
(* rounded to nearest-even on 53 significant bits, compared with the       *)
(* constant 0.3.  A positive float64 is [exp, frac]: frac holds the 52     *)
(* fraction bits as four 13-bit limbs, most significant first, and the     *)
(* value is 1.frac * 2^exp.  Zero is [exp |-> 0, frac |-> <<>>].  The      *)
(* long division is exact for divisors below 2^18.                         *)
(***************************************************************************)
LimbBase == 8192
FracLimbs == 4

FloatZero == [exp |-> 0, frac |-> <<>>]

\* shift the dividend left until the quotient lies in [1, 2)
RECURSIVE Normalise(_, _, _)
Normalise(r, d, e) == IF r >= d THEN <<r, e>> ELSE Normalise(2 * r, d, e - 1)

\* the next k limbs of the quotient r / d (r < d) by long division, and the
\* remainder left
RECURSIVE DivLimbs(_, _, _)
DivLimbs(r, d, k) ==
    IF k = 0 THEN [limbs |-> <<>>, rem |-> r]
    ELSE LET rest == DivLimbs((r * LimbBase) % d, d, k - 1)
         IN  [limbs |-> <<(r * LimbBase) \div d>> \o rest.limbs, rem |-> rest.rem]

\* add one unit in the last place; carry is 1 when every limb was full
RECURSIVE Increment(_)
Increment(limbs) ==
    IF limbs = <<>> THEN [limbs |-> <<>>, carry |-> 1]
    ELSE LET n == Len(limbs)
         IN  IF limbs[n] + 1 < LimbBase
             THEN [limbs |-> [limbs EXCEPT ![n] = @ + 1], carry |-> 0]
             ELSE LET up == Increment(SubSeq(limbs, 1, n - 1))
                  IN  [limbs |-> Append(up.limbs, 0), carry |-> up.carry]

\* float64(n) / float64(d) for 0 <= n <= d, d > 0: correctly rounded
Float64Div(n, d) ==
    IF n = 0 THEN FloatZero
    ELSE LET norm == Normalise(n, d, 0)
             q == DivLimbs(norm[1] - d, d, FracLimbs)
             guard == (2 * q.rem) \div d
             sticky == (2 * q.rem) % d # 0
             roundUp == guard = 1 /\ (sticky \/ q.limbs[FracLimbs] % 2 = 1)
             up == Increment(q.limbs)
         IN  IF ~roundUp THEN [exp |-> norm[2], frac |-> q.limbs]
             ELSE [exp |-> norm[2] + up.carry, frac |-> up.limbs]

\* the float64 constant 0.3 = 0x3FD3333333333333: 1.3333333333333 (hex)
\* times 2^-2
Threshold == [exp |-> -2, frac |-> <<1638, 3276, 6553, 4915>>]

\* lexicographic comparison of two fractions of the same length
RECURSIVE LimbsGreater(_, _, _)
LimbsGreater(a, b, i) ==
    IF i > Len(a) THEN FALSE
    ELSE IF a[i] # b[i] THEN a[i] > b[i]
    ELSE LimbsGreater(a, b, i + 1)

\* x > y on non-negative float64 values
FloatGreater(x, y) ==
    IF x.frac = <<>> THEN FALSE
    ELSE IF y.frac = <<>> THEN TRUE
    ELSE IF x.exp # y.exp THEN x.exp > y.exp
    ELSE LimbsGreater(x.frac, y.frac, 1)

(***************************************************************************)
(* isBinary (src/main.go:13)                                               *)
(***************************************************************************)
\* the first loop: does any byte equal 0
RECURSIVE HasNul(_, _)
HasNul(data, i) ==
    IF i > Len(data) THEN FALSE
    ELSE IF data[i] = NUL THEN TRUE
    ELSE HasNul(data, i + 1)

\* the second loop: bytes below 32 other than \n, \r and \t
RECURSIVE NonPrintable(_, _)
NonPrintable(data, i) ==
    IF i > Len(data) THEN 0
    ELSE (IF data[i] < SPACE /\ data[i] # LF /\ data[i] # CR /\ data[i] # TAB
          THEN 1 ELSE 0) + NonPrintable(data, i + 1)

\* variant: at least the threshold rather than more than it
OverThresholdOrEqual(nonPrintable, length) ==
    ~FloatGreater(Threshold, Float64Div(nonPrintable, length))

\* the final comparison with the ratio in float64
OverThreshold(nonPrintable, length) ==
    FloatGreater(Float64Div(nonPrintable, length), Threshold)

isBinary(data) ==
    IF Len(data) = 0 THEN FALSE
    ELSE IF HasNul(data, 1) THEN TRUE
    ELSE OverThreshold(NonPrintable(data, 1), Len(data))

(***************************************************************************)
(* The directory trees walked.  A tree is the root handed to               *)
(* processRepository and the entries filepath.Walk reports, in the order   *)
(* it reports them (lexical within a directory, a directory before its     *)
(* children).  Entry 1 is the root itself.                                 *)
(***************************************************************************)
Dir(rel) == [rel |-> rel, isDir |-> TRUE]
File(rel) == [rel |-> rel, isDir |-> FALSE]

\* r/ holding .git/config and note.txt
TreeHidden ==
    [root |-> <<"r">>,
     entries |-> << Dir(<<>>),
                    Dir(<<".", "g", "i", "t">>),
                    File(<<".", "g", "i", "t", "/", "c", "o", "n", "f", "i", "g">>),
                    File(<<"n", "o", "t", "e", ".", "t", "x", "t">>) >>]

\* r/ holding a.txt and b.txt
TreeFlat ==
    [root |-> <<"r">>,
     entries |-> << Dir(<<>>),
                    File(<<"a", ".", "t", "x", "t">>),
                    File(<<"b", ".", "t", "x", "t">>) >>]

\* .h/ holding IMAGE.PNG and src/main.go: the root itself is a hidden name
TreeNested ==
    [root |-> <<".", "h">>,
     entries |-> << Dir(<<>>),
                    File(<<"I", "M", "A", "G", "E", ".", "P", "N", "G">>),
                    Dir(<<"s", "r", "c">>),
                    File(<<"s", "r", "c", "/", "m", "a", "i", "n", ".", "g", "o">>) >>]

\* r/ holding only .git/HEAD and .git/config
TreeGit ==
    [root |-> <<"r">>,
     entries |-> << Dir(<<>>),
                    Dir(<<".", "g", "i", "t">>),
                    File(<<".", "g", "i", "t", "/", "H", "E", "A", "D">>),
                    File(<<".", "g", "i", "t", "/", "c", "o", "n", "f", "i", "g">>) >>]

Trees == << TreeHidden, TreeFlat, TreeNested, TreeGit >>

(***************************************************************************)
(* File contents.  A body of up to MaxBody copies of one byte, with or     *)
(* without a final line feed: empty files, text with and without the       *)
(* trailing newline, and binary files of both kinds with either ending.    *)
(***************************************************************************)
\* a NUL, a control byte, a line feed and a letter
Bytes == {NUL, 1, LF, 65}

Repeat(b, k) == [i \in 1..k |-> b]

Contents ==
    { Repeat(b, k) \o t : b \in Bytes, k \in 0..MaxBody, t \in {<<>>, <<LF>>} }

(***************************************************************************)
(* State.                                                                  *)
(***************************************************************************)
VARIABLES
    tree,              \* index in Trees of the tree on disk
    content,           \* content[i]: the bytes of file entry i on disk
    before,            \* content when the current call of processRepository began
    fix,               \* the fix argument of the current call
    run,               \* number of the current call
    prev,              \* the call before this one: its mode, files fixed, no file failed
    pc,                \* "walking" inside filepath.Walk, "done" after the return
    idx,               \* the entry the walk hands to the callback next
    totalFiles, fixedFiles, skippedFiles, problematicFiles,
    out,               \* lines written to standard output by the current call
    ret,               \* what the current call returned: "none", "ok", "error"
    buf,               \* a buffer handed to isBinary on its own
    verdict,           \* isBinary's answer for buf: "none", "binary", "text"
    path,              \* a path handed to shouldSkipFile on its own
    skip               \* shouldSkipFile's answer for path: "none", "skip", "keep"

vars == << tree, content, before, fix, run, prev, pc, idx, totalFiles, fixedFiles,
           skippedFiles, problematicFiles, out, ret, buf, verdict, path, skip >>

binVars == << buf, verdict, path, skip >>
walkVars == << tree, content, before, fix, run, prev, pc, idx, totalFiles,
               fixedFiles, skippedFiles, problematicFiles, out, ret >>

repoPath == Trees[tree].root
entries == Trees[tree].entries
NumEntries == Len(entries)
Files == { i \in 1..NumEntries : ~entries[i].isDir }

\* the path filepath.Walk passes to the callback for entry i
WalkPath(i) == IF i = 1 THEN repoPath ELSE Join(repoPath, entries[i].rel)

\* variant: the path as the walk gives it, root included
RelPathWhole(i) == WalkPath(i)

\* relPath of the callback (src/main.go:121)
RelPath(i) == Rel(repoPath, WalkPath(i))

(***************************************************************************)
(* Standard output.                                                        *)
(***************************************************************************)
ErrorLine(relPath, msg) ==
    [kind |-> "Error", path |-> relPath, msg |-> msg,
     total |-> 0, skipped |-> 0, count |-> 0, list |-> <<>>]

FixedLine(relPath) ==
    [kind |-> "Fixed", path |-> relPath, msg |-> "",
     total |-> 0, skipped |-> 0, count |-> 0, list |-> <<>>]

\* the summary: "Files fixed" in fix mode, "Files missing newline" and the
\* list of paths otherwise
Summary(fixFlag, total, skipped, fixed, problematic) ==
    [kind |-> "Summary", path |-> <<>>,
     msg |-> IF fixFlag THEN "Files fixed" ELSE "Files missing newline",
     total |-> total, skipped |-> skipped,
     count |-> IF fixFlag THEN fixed ELSE Len(problematic),
     list |-> IF fixFlag THEN <<>> ELSE problematic]

(***************************************************************************)
(* os.ReadFile and os.WriteFile.  A write truncates the file on open and   *)
(* then writes: it succeeds with every byte on disk, or fails with the     *)
(* file untouched (the open failed) or holding the first n bytes.          *)
(***************************************************************************)
WriteOutcomes(len) ==
    { [err |-> FALSE, opened |-> TRUE, n |-> len] }
      \cup { [err |-> TRUE, opened |-> FALSE, n |-> 0] }
      \cup { [err |-> TRUE, opened |-> TRUE, n |-> k] : k \in 0..len }

WriteFile(old, data, w) == IF w.opened THEN SubSeq(data, 1, w.n) ELSE old

\* bytes.HasSuffix
HasSuffix(s, suffix) ==
    Len(s) >= Len(suffix) /\ SubSeq(s, Len(s) - Len(suffix) + 1, Len(s)) = suffix

(***************************************************************************)
(* Variants of checkAndFixFile with one slip each, for checking that the   *)
(* properties below depend on it.                                          *)
(***************************************************************************)
\* checkAndFixFile without the isBinary test
checkAndFixFileNoBinary(disk, fixFlag, readOk, w) ==
    IF ~readOk
    THEN [ends |-> FALSE, err |-> "failed to read file", disk |-> disk]
    ELSE LET data == disk IN
         IF Len(data) = 0
         THEN [ends |-> TRUE, err |-> "", disk |-> disk]
         ELSE IF FALSE
         THEN [ends |-> TRUE, err |-> "", disk |-> disk]
         ELSE LET endsWithNewline == HasSuffix(data, <<LF>>) IN
              IF ~endsWithNewline /\ fixFlag
              THEN LET fixed == Append(data, LF)
                       after == WriteFile(disk, fixed, w)
                   IN  IF w.err
                       THEN [ends |-> FALSE, err |-> "failed to write file",
                             disk |-> after]
                       ELSE [ends |-> FALSE, err |-> "", disk |-> after]
              ELSE [ends |-> endsWithNewline, err |-> "", disk |-> disk]

\* checkAndFixFile rewriting whatever the fix flag says
checkAndFixFileIgnoreFix(disk, fixFlag, readOk, w) ==
    IF ~readOk
    THEN [ends |-> FALSE, err |-> "failed to read file", disk |-> disk]
    ELSE LET data == disk IN
         IF Len(data) = 0
         THEN [ends |-> TRUE, err |-> "", disk |-> disk]
         ELSE IF isBinary(data)
         THEN [ends |-> TRUE, err |-> "", disk |-> disk]
         ELSE LET endsWithNewline == HasSuffix(data, <<LF>>) IN
              IF ~endsWithNewline
              THEN LET fixed == Append(data, LF)
                       after == WriteFile(disk, fixed, w)
                   IN  IF w.err
                       THEN [ends |-> FALSE, err |-> "failed to write file",
                             disk |-> after]
                       ELSE [ends |-> FALSE, err |-> "", disk |-> after]
              ELSE [ends |-> endsWithNewline, err |-> "", disk |-> disk]

\* checkAndFixFile appending in fix mode whatever the last byte is
checkAndFixFileAlways(disk, fixFlag, readOk, w) ==
    IF ~readOk
    THEN [ends |-> FALSE, err |-> "failed to read file", disk |-> disk]
    ELSE LET data == disk IN
         IF Len(data) = 0
         THEN [ends |-> TRUE, err |-> "", disk |-> disk]
         ELSE IF isBinary(data)
         THEN [ends |-> TRUE, err |-> "", disk |-> disk]
         ELSE LET endsWithNewline == HasSuffix(data, <<LF>>) IN
              IF fixFlag
              THEN LET fixed == Append(data, LF)
                       after == WriteFile(disk, fixed, w)
                   IN  IF w.err
                       THEN [ends |-> FALSE, err |-> "failed to write file",
                             disk |-> after]
                       ELSE [ends |-> FALSE, err |-> "", disk |-> after]
              ELSE [ends |-> endsWithNewline, err |-> "", disk |-> disk]

\* checkAndFixFile appending a carriage return and a line feed
checkAndFixFileCRLF(disk, fixFlag, readOk, w) ==
    IF ~readOk
    THEN [ends |-> FALSE, err |-> "failed to read file", disk |-> disk]
    ELSE LET data == disk IN
         IF Len(data) = 0
         THEN [ends |-> TRUE, err |-> "", disk |-> disk]
         ELSE IF isBinary(data)
         THEN [ends |-> TRUE, err |-> "", disk |-> disk]
         ELSE LET endsWithNewline == HasSuffix(data, <<LF>>) IN
              IF ~endsWithNewline /\ fixFlag
              THEN LET fixed == data \o <<CR, LF>>
                       after == WriteFile(disk, fixed, w)
                   IN  IF w.err
                       THEN [ends |-> FALSE, err |-> "failed to write file",
                             disk |-> after]
                       ELSE [ends |-> FALSE, err |-> "", disk |-> after]
              ELSE [ends |-> endsWithNewline, err |-> "", disk |-> disk]

(***************************************************************************)
(* checkAndFixFile (src/main.go:69): disk is the file's content, readOk    *)
(* and w are what the operating system does with the read and the write.   *)
(* The result is the returned pair and the content left on disk.           *)
(***************************************************************************)
checkAndFixFile(disk, fixFlag, readOk, w) ==
    IF ~readOk
    THEN [ends |-> FALSE, err |-> "failed to read file", disk |-> disk]
    ELSE LET data == disk IN
         IF Len(data) = 0
         THEN [ends |-> TRUE, err |-> "", disk |-> disk]
         ELSE IF isBinary(data)
         THEN [ends |-> TRUE, err |-> "", disk |-> disk]
         ELSE LET endsWithNewline == HasSuffix(data, <<LF>>) IN
              IF ~endsWithNewline /\ fixFlag
              THEN LET fixed == Append(data, LF)
                       after == WriteFile(disk, fixed, w)
                   IN  IF w.err
                       THEN [ends |-> FALSE, err |-> "failed to write file",
                             disk |-> after]
                       ELSE [ends |-> FALSE, err |-> "", disk |-> after]
              ELSE [ends |-> endsWithNewline, err |-> "", disk |-> disk]

(***************************************************************************)
(* processRepository (src/main.go:106).  Each action below is one call of  *)
(* the walk callback, or the code after filepath.Walk returns.             *)
(***************************************************************************)
\* some line of the output is an "Error processing" line
HasErrorLine(lines) == \E k \in 1..Len(lines) : lines[k].kind = "Error"

Init ==
    /\ tree \in 1..Len(Trees)
    /\ content \in [Files -> Contents]
    /\ before = content
    /\ fix \in BOOLEAN
    /\ run = 1
    /\ prev = [called |-> FALSE, fix |-> FALSE, fixed |-> 0, clean |-> TRUE]
    /\ pc = "walking"
    /\ idx = 1
    /\ totalFiles = 0
    /\ fixedFiles = 0
    /\ skippedFiles = 0
    /\ problematicFiles = <<>>
    /\ out = <<>>
    /\ ret = "none"
    /\ buf = <<>>
    /\ verdict = "none"
    /\ path = <<>>
    /\ skip = "none"

\* variant: the summary is printed before the walk's error is looked at
WalkErrorAfterSummary ==
    /\ pc = "walking"
    /\ IF idx <= NumEntries THEN TRUE ELSE entries[NumEntries].isDir
    /\ pc' = "done"
    /\ ret' = "error"
    /\ out' = Append(out, Summary(fix, totalFiles, skippedFiles, fixedFiles,
                                  problematicFiles))
    /\ UNCHANGED << tree, content, before, fix, run, prev, idx, totalFiles,
                    fixedFiles, skippedFiles, problematicFiles, binVars >>

\* The walk reports an error: entry idx cannot be examined (the root does
\* not exist, Lstat fails), or the directory just entered cannot be listed.
\* The callback returns it, the walk stops, processRepository returns
\* "failed to walk repository" before the summary.
WalkError ==
    /\ pc = "walking"
    /\ IF idx <= NumEntries THEN TRUE ELSE entries[NumEntries].isDir
    /\ pc' = "done"
    /\ ret' = "error"
    /\ UNCHANGED << tree, content, before, fix, run, prev, idx, totalFiles,
                    fixedFiles, skippedFiles, problematicFiles, out, binVars >>

\* info.IsDir(): return nil
VisitDir ==
    /\ pc = "walking"
    /\ idx <= NumEntries
    /\ entries[idx].isDir
    /\ idx' = idx + 1
    /\ UNCHANGED << tree, content, before, fix, run, prev, pc, totalFiles,
                    fixedFiles, skippedFiles, problematicFiles, out, ret, binVars >>

\* shouldSkipFile(relPath): skippedFiles++, return nil
SkipFile ==
    /\ pc = "walking"
    /\ idx <= NumEntries
    /\ ~entries[idx].isDir
    /\ shouldSkipFile(RelPath(idx))
    /\ skippedFiles' = skippedFiles + 1
    /\ idx' = idx + 1
    /\ UNCHANGED << tree, content, before, fix, run, prev, pc, totalFiles,
                    fixedFiles, problematicFiles, out, ret, binVars >>

\* variant: a file that fails is not counted in totalFiles
walkFnCountOnSuccess(relPath, fixFlag, r, total, fixed, problematic, lines) ==
    LET counted == total + 1 IN
    IF r.err # ""
    THEN [totalFiles |-> total, fixedFiles |-> fixed,
          problematicFiles |-> problematic,
          out |-> Append(lines, ErrorLine(relPath, r.err)), result |-> "nil"]
    ELSE IF ~r.ends
    THEN IF fixFlag
         THEN [totalFiles |-> counted, fixedFiles |-> fixed + 1,
               problematicFiles |-> problematic,
               out |-> Append(lines, FixedLine(relPath)), result |-> "nil"]
         ELSE [totalFiles |-> counted, fixedFiles |-> fixed,
               problematicFiles |-> Append(problematic, relPath),
               out |-> lines, result |-> "nil"]
    ELSE [totalFiles |-> counted, fixedFiles |-> fixed,
          problematicFiles |-> problematic, out |-> lines, result |-> "nil"]

\* variant: a failed rewrite is still counted as fixed
walkFnFixedOnError(relPath, fixFlag, r, total, fixed, problematic, lines) ==
    LET counted == total + 1 IN
    IF r.err # ""
    THEN [totalFiles |-> counted,
          fixedFiles |-> IF fixFlag THEN fixed + 1 ELSE fixed,
          problematicFiles |-> problematic,
          out |-> Append(lines, ErrorLine(relPath, r.err)), result |-> "nil"]
    ELSE IF ~r.ends
    THEN IF fixFlag
         THEN [totalFiles |-> counted, fixedFiles |-> fixed + 1,
               problematicFiles |-> problematic,
               out |-> Append(lines, FixedLine(relPath)), result |-> "nil"]
         ELSE [totalFiles |-> counted, fixedFiles |-> fixed,
               problematicFiles |-> Append(problematic, relPath),
               out |-> lines, result |-> "nil"]
    ELSE [totalFiles |-> counted, fixedFiles |-> fixed,
          problematicFiles |-> problematic, out |-> lines, result |-> "nil"]

\* variant: the callback returns the file's error to the walk
walkFnReturnErr(relPath, fixFlag, r, total, fixed, problematic, lines) ==
    LET counted == total + 1 IN
    IF r.err # ""
    THEN [totalFiles |-> counted, fixedFiles |-> fixed,
          problematicFiles |-> problematic,
          out |-> Append(lines, ErrorLine(relPath, r.err)), result |-> r.err]
    ELSE IF ~r.ends
    THEN IF fixFlag
         THEN [totalFiles |-> counted, fixedFiles |-> fixed + 1,
               problematicFiles |-> problematic,
               out |-> Append(lines, FixedLine(relPath)), result |-> "nil"]
         ELSE [totalFiles |-> counted, fixedFiles |-> fixed,
               problematicFiles |-> Append(problematic, relPath),
               out |-> lines, result |-> "nil"]
    ELSE [totalFiles |-> counted, fixedFiles |-> fixed,
          problematicFiles |-> problematic, out |-> lines, result |-> "nil"]

\* variant: a missing path is put at the front of the list
walkFnPrepend(relPath, fixFlag, r, total, fixed, problematic, lines) ==
    LET counted == total + 1 IN
    IF r.err # ""
    THEN [totalFiles |-> counted, fixedFiles |-> fixed,
          problematicFiles |-> problematic,
          out |-> Append(lines, ErrorLine(relPath, r.err)), result |-> "nil"]
    ELSE IF ~r.ends
    THEN IF fixFlag
         THEN [totalFiles |-> counted, fixedFiles |-> fixed + 1,
               problematicFiles |-> problematic,
               out |-> Append(lines, FixedLine(relPath)), result |-> "nil"]
         ELSE [totalFiles |-> counted, fixedFiles |-> fixed,
               problematicFiles |-> <<relPath>> \o problematic,
               out |-> lines, result |-> "nil"]
    ELSE [totalFiles |-> counted, fixedFiles |-> fixed,
          problematicFiles |-> problematic, out |-> lines, result |-> "nil"]

\* variant: a fixed file is counted but its line is not printed at once
walkFnSilentFix(relPath, fixFlag, r, total, fixed, problematic, lines) ==
    LET counted == total + 1 IN
    IF r.err # ""
    THEN [totalFiles |-> counted, fixedFiles |-> fixed,
          problematicFiles |-> problematic,
          out |-> Append(lines, ErrorLine(relPath, r.err)), result |-> "nil"]
    ELSE IF ~r.ends
    THEN IF fixFlag
         THEN [totalFiles |-> counted, fixedFiles |-> fixed + 1,
               problematicFiles |-> problematic,
               out |-> lines, result |-> "nil"]
         ELSE [totalFiles |-> counted, fixedFiles |-> fixed,
               problematicFiles |-> Append(problematic, relPath),
               out |-> lines, result |-> "nil"]
    ELSE [totalFiles |-> counted, fixedFiles |-> fixed,
          problematicFiles |-> problematic, out |-> lines, result |-> "nil"]

\* The callback from totalFiles++ on (src/main.go:132-150), given what
\* checkAndFixFile returned: the new counters, list and output, and the
\* value the callback returns to the walk.
walkFn(relPath, fixFlag, r, total, fixed, problematic, lines) ==
    LET counted == total + 1 IN
    IF r.err # ""
    THEN [totalFiles |-> counted, fixedFiles |-> fixed,
          problematicFiles |-> problematic,
          out |-> Append(lines, ErrorLine(relPath, r.err)), result |-> "nil"]
    ELSE IF ~r.ends
    THEN IF fixFlag
         THEN [totalFiles |-> counted, fixedFiles |-> fixed + 1,
               problematicFiles |-> problematic,
               out |-> Append(lines, FixedLine(relPath)), result |-> "nil"]
         ELSE [totalFiles |-> counted, fixedFiles |-> fixed,
               problematicFiles |-> Append(problematic, relPath),
               out |-> lines, result |-> "nil"]
    ELSE [totalFiles |-> counted, fixedFiles |-> fixed,
          problematicFiles |-> problematic, out |-> lines, result |-> "nil"]

\* A file that is not skipped: checkAndFixFile, then the rest of the
\* callback.  The walk goes on to the next entry when the callback returns
\* nil and stops with the error otherwise.
CheckFile ==
    /\ pc = "walking"
    /\ idx <= NumEntries
    /\ ~entries[idx].isDir
    /\ ~shouldSkipFile(RelPath(idx))
    /\ \E readOk \in BOOLEAN, w \in WriteOutcomes(Len(content[idx]) + 1) :
         LET r == checkAndFixFile(content[idx], fix, readOk, w)
             c == walkFn(RelPath(idx), fix, r, totalFiles, fixedFiles,
                         problematicFiles, out)
         IN  /\ content' = [content EXCEPT ![idx] = r.disk]
             /\ totalFiles' = c.totalFiles
             /\ fixedFiles' = c.fixedFiles
             /\ problematicFiles' = c.problematicFiles
             /\ out' = c.out
             /\ IF c.result = "nil"
                THEN idx' = idx + 1 /\ UNCHANGED << pc, ret >>
                ELSE pc' = "done" /\ ret' = "error" /\ UNCHANGED idx
    /\ UNCHANGED << tree, before, fix, run, prev, skippedFiles, binVars >>

\* filepath.Walk returned nil: print the summary, return nil
Finish ==
    /\ pc = "walking"
    /\ idx = NumEntries + 1
    /\ out' = Append(out, Summary(fix, totalFiles, skippedFiles, fixedFiles,
                                  problematicFiles))
    /\ pc' = "done"
    /\ ret' = "ok"
    /\ UNCHANGED << tree, content, before, fix, run, prev, idx, totalFiles,
                    fixedFiles, skippedFiles, problematicFiles, binVars >>

\* processRepository returned success and is called again on the same tree,
\* now in fix mode (a check followed by a fix, or a fix repeated)
NextRun ==
    /\ pc = "done"
    /\ ret = "ok"
    /\ run < MaxRuns
    /\ prev' = [called |-> TRUE, fix |-> fix, fixed |-> fixedFiles,
                clean |-> ~HasErrorLine(out)]
    /\ run' = run + 1
    /\ fix' = TRUE
    /\ before' = content
    /\ pc' = "walking"
    /\ idx' = 1
    /\ totalFiles' = 0
    /\ fixedFiles' = 0
    /\ skippedFiles' = 0
    /\ problematicFiles' = <<>>
    /\ out' = <<>>
    /\ ret' = "none"
    /\ UNCHANGED << tree, content, binVars >>

Next == WalkError \/ VisitDir \/ SkipFile \/ CheckFile \/ Finish \/ NextRun

Spec == Init /\ [][Next]_vars

(***************************************************************************)
(* isBinary on its own: a buffer is chosen, then classified.               *)
(***************************************************************************)
\* up to MaxCtl copies of a control byte and up to MaxTxt copies of another
\* byte, in either order, with or without a NUL at the end
Buffers ==
    { first \o second \o Repeat(NUL, z) :
        first \in { Repeat(c, k) : c \in {1, 31}, k \in 0..MaxCtl },
        second \in { Repeat(t, m) : t \in {TAB, LF, CR, SPACE, 65, 255}, m \in 0..MaxTxt },
        z \in 0..1 }
    \cup
    { second \o first \o Repeat(NUL, z) :
        first \in { Repeat(c, k) : c \in {1, 31}, k \in 0..MaxCtl },
        second \in { Repeat(t, m) : t \in {TAB, LF, CR, SPACE, 65, 255}, m \in 0..MaxTxt },
        z \in 0..1 }

InitBin ==
    /\ buf \in Buffers
    /\ verdict = "none"
    /\ path = <<>>
    /\ skip = "none"
    /\ tree = 1
    /\ content = [i \in Files |-> <<>>]
    /\ before = content
    /\ fix = FALSE
    /\ run = 1
    /\ prev = [called |-> FALSE, fix |-> FALSE, fixed |-> 0, clean |-> TRUE]
    /\ pc = "done"
    /\ idx = 1
    /\ totalFiles = 0
    /\ fixedFiles = 0
    /\ skippedFiles = 0
    /\ problematicFiles = <<>>
    /\ out = <<>>
    /\ ret = "none"

Classify ==
    /\ verdict = "none"
    /\ verdict' = IF isBinary(buf) THEN "binary" ELSE "text"
    /\ UNCHANGED << buf, path, skip, walkVars >>

NextBin == Classify

SpecBin == InitBin /\ [][NextBin]_vars

(***************************************************************************)
(* shouldSkipFile on its own: a path is chosen, then filtered.             *)
(***************************************************************************)
\* the characters generated paths are made of: the dot, the slash, and
\* letters of the short extensions .a, .o and .so in both cases
PathChars == {".", "/", "o", "O", "a", "s"}

\* every string of at most n of these characters
RECURSIVE StringsUpTo(_)
StringsUpTo(n) ==
    IF n = 0 THEN { <<>> }
    ELSE LET shorter == StringsUpTo(n - 1)
         IN  shorter \cup { Append(s, c) : s \in shorter, c \in PathChars }

\* the paths of TestShouldSkipFile
TestPaths ==
    { <<"m", "a", "i", "n", ".", "g", "o">>,
      <<".", "g", "i", "t", "i", "g", "n", "o", "r", "e">>,
      <<".", "g", "i", "t", "/", "c", "o", "n", "f", "i", "g">>,
      <<"p", "r", "o", "g", "r", "a", "m", ".", "e", "x", "e">>,
      <<"i", "m", "a", "g", "e", ".", "j", "p", "g">>,
      <<"R", "E", "A", "D", "M", "E", ".", "m", "d">>,
      <<"d", "a", "t", "a", ".", "s", "q", "l", "i", "t", "e">>,
      <<"I", "M", "A", "G", "E", ".", "P", "N", "G">>,
      <<"i", "m", "a", "g", "e", ".", "p", "n", "g">> }

InitSkip ==
    /\ path \in StringsUpTo(MaxPathLen) \cup TestPaths
    /\ skip = "none"
    /\ buf = <<>>
    /\ verdict = "none"
    /\ tree = 1
    /\ content = [i \in Files |-> <<>>]
    /\ before = content
    /\ fix = FALSE
    /\ run = 1
    /\ prev = [called |-> FALSE, fix |-> FALSE, fixed |-> 0, clean |-> TRUE]
    /\ pc = "done"
    /\ idx = 1
    /\ totalFiles = 0
    /\ fixedFiles = 0
    /\ skippedFiles = 0
    /\ problematicFiles = <<>>
    /\ out = <<>>
    /\ ret = "none"

Filter ==
    /\ skip = "none"
    /\ skip' = IF shouldSkipFile(path) THEN "skip" ELSE "keep"
    /\ UNCHANGED << path, buf, verdict, walkVars >>

NextSkip == Filter

SpecSkip == InitSkip /\ [][NextSkip]_vars

(***************************************************************************)
(* Properties.                                                             *)
(***************************************************************************)
\* the files the callback has been handed in the current call
Visited == { i \in Files : i < idx }

\* the path of file entry i relative to the root, as the tree has it
PathOf(i) == entries[i].rel

\* the path filter rejects file entry i
Skipped(i) == shouldSkipFile(PathOf(i))

\* p is in the missing-newline list
Listed(p) == \E k \in 1..Len(problematicFiles) : problematicFiles[k] = p

\* a line of the given kind was printed for p
Printed(kind, p) == \E k \in 1..Len(out) : out[k].kind = kind /\ out[k].path = p

\* number of lines of the given kind printed
Count(kind) == Cardinality({ k \in 1..Len(out) : out[k].kind = kind })

\* text that is neither empty nor binary and lacks the final line feed
NeedsNewline(data) ==
    data # <<>> /\ ~isBinary(data) /\ ~HasSuffix(data, <<LF>>)

\* this step printed an "Error processing" line
ErrorReported ==
    /\ Len(out') = Len(out) + 1
    /\ out'[Len(out')].kind = "Error"

\* C1: every file the walk has handed to the callback is counted exactly once,
\* in exactly one of skipped, checked-and-fixed, checked-and-missing and
\* checked-and-fine (the checked files that are neither fixed nor missing),
\* whether or not reads and writes failed.
C1_EveryFileInOneBucket ==
    LET skippedSet == { i \in Visited : Skipped(i) }
        checkedSet == Visited \ skippedSet
        fixedSet == { i \in checkedSet : Printed("Fixed", PathOf(i)) }
        missingSet == { i \in checkedSet : Listed(PathOf(i)) }
    IN  /\ skippedFiles = Cardinality(skippedSet)
        /\ totalFiles = Cardinality(checkedSet)
        /\ fixedFiles = Cardinality(fixedSet)
        /\ Count("Fixed") = fixedFiles
        /\ Len(problematicFiles) = Cardinality(missingSet)
        /\ fixedSet \cap missingSet = {}

C1_Witness ==
    /\ pc = "done" /\ ret = "ok"
    /\ HasErrorLine(out)
    /\ skippedFiles = 1 /\ totalFiles = 1

\* C2 as stated: a file whose read or write failed is in no counter at all,
\* so Total files checked counts only the files processed without an error.
C2_FailedFileInNoCounter ==
    /\ totalFiles = Cardinality({ i \in Visited :
                        ~Skipped(i) /\ ~Printed("Error", PathOf(i)) })
    /\ \A i \in Visited : Printed("Error", PathOf(i)) =>
           ~Listed(PathOf(i)) /\ ~Printed("Fixed", PathOf(i))

\* C2 amended: the step that reports a failed read or write adds one to
\* Total files checked and nothing to Files skipped, the fixed counter or
\* the missing-newline list.
C2_FailedFileOnlyInTotal ==
    [][ErrorReported =>
          /\ totalFiles' = totalFiles + 1
          /\ skippedFiles' = skippedFiles
          /\ fixedFiles' = fixedFiles
          /\ problematicFiles' = problematicFiles]_vars

C2_Witness ==
    /\ fix
    /\ \E k \in 1..Len(out) : out[k].msg = "failed to write file"
    /\ totalFiles = 2 /\ fixedFiles = 1

\* C3: a failed read or write leaves the walk going with the next entry; a
\* call that returned success visited every entry and printed the summary
\* last; a call returns an error only in a step that processed no file, and
\* then no summary was printed.
C3_FileErrorsNeverAbort ==
    /\ [](/\ (pc = "walking" => ret = "none")
          /\ (pc = "done" => ret \in {"ok", "error"})
          /\ (ret = "ok" =>
                /\ idx = NumEntries + 1
                /\ totalFiles + skippedFiles = Cardinality(Files)
                /\ Count("Summary") = 1
                /\ out[Len(out)].kind = "Summary")
          /\ (ret = "error" => Count("Summary") = 0))
    /\ [][ErrorReported =>
            pc' = "walking" /\ ret' = "none" /\ idx' = idx + 1]_vars
    /\ [][(ret = "none" /\ ret' = "error") =>
            /\ out' = out
            /\ content' = content
            /\ totalFiles' = totalFiles]_vars

C3_Witness ==
    /\ pc = "done" /\ ret = "ok"
    /\ Len(out) >= 2 /\ out[1].kind = "Error"
    /\ totalFiles = 2

\* C4: in fix mode, a visited file that is not skipped, was non-empty text
\* without a final line feed and met no read or write error holds its
\* original content followed by one line feed; after a fix run without file
\* errors every non-skipped, non-empty text file ends with a line feed.
C4_FixRoundTrip ==
    /\ fix =>
         \A i \in Visited :
            (~Skipped(i) /\ NeedsNewline(before[i])
               /\ ~Printed("Error", PathOf(i)))
            => content[i] = before[i] \o <<LF>>
    /\ (fix /\ pc = "done" /\ ret = "ok" /\ ~HasErrorLine(out)) =>
         \A i \in Files :
            (~Skipped(i) /\ content[i] # <<>> /\ ~isBinary(content[i]))
            => HasSuffix(content[i], <<LF>>)

C4_Witness ==
    /\ fix /\ pc = "done" /\ ret = "ok" /\ ~HasErrorLine(out)
    /\ \E i \in Visited :
          /\ ~Skipped(i) /\ NeedsNewline(before[i])
          /\ content[i] = before[i] \o <<LF>>

\* C5: a fix run that follows a fix run, neither meeting a file error, fixes
\* nothing: the fixed counter stays 0, no "Fixed:" line is printed and no
\* content changes.
C5_FixIdempotent ==
    (prev.called /\ prev.fix /\ prev.clean /\ fix /\ ~HasErrorLine(out)) =>
        /\ fixedFiles = 0
        /\ Count("Fixed") = 0
        /\ content = before

C5_Witness ==
    /\ prev.called /\ prev.fix /\ prev.clean /\ prev.fixed >= 1
    /\ fix /\ pc = "done" /\ ret = "ok" /\ ~HasErrorLine(out)

\* C6: in check mode no file content ever differs from what it was when the
\* call began, and nothing is counted or printed as fixed.
C6_CheckNeverMutates ==
    ~fix => /\ content = before
            /\ fixedFiles = 0
            /\ Count("Fixed") = 0

C6_Witness ==
    /\ ~fix /\ pc = "done" /\ ret = "ok"
    /\ Len(problematicFiles) >= 1

\* C7: a file that is not skipped and is empty or binary keeps its content,
\* is never listed as missing and never reported fixed, in both modes; the
\* step that visits it adds one to Total files checked and changes no other
\* counter.
C7_EmptyAndBinaryUntouched ==
    /\ [](\A i \in Files :
            (~Skipped(i) /\ (before[i] = <<>> \/ isBinary(before[i]))) =>
                /\ content[i] = before[i]
                /\ ~Listed(PathOf(i))
                /\ ~Printed("Fixed", PathOf(i)))
    /\ [][(/\ pc = "walking" /\ idx \in Files /\ idx' = idx + 1
           /\ ~Skipped(idx)
           /\ (content[idx] = <<>> \/ isBinary(content[idx]))) =>
            /\ totalFiles' = totalFiles + 1
            /\ fixedFiles' = fixedFiles
            /\ skippedFiles' = skippedFiles
            /\ problematicFiles' = problematicFiles
            /\ content' = content]_vars

C7_Witness ==
    /\ fix /\ pc = "done" /\ ret = "ok" /\ ~HasErrorLine(out)
    /\ totalFiles = 2
    /\ \E i \in Files : before[i] = <<>>
    /\ \E i \in Files : isBinary(before[i]) /\ ~HasSuffix(before[i], <<LF>>)

\* C8: a file whose path relative to the root the filter rejects is counted
\* once in Files skipped and not in Total files checked, keeps its content,
\* and has no error, fixed or missing entry; the root's own name plays no
\* part in the decision.
C8_SkippedFilesUntouched ==
    /\ skippedFiles = Cardinality({ i \in Visited : Skipped(i) })
    /\ totalFiles = Cardinality({ i \in Visited : ~Skipped(i) })
    /\ \A i \in Files : Skipped(i) =>
          /\ content[i] = before[i]
          /\ ~Listed(PathOf(i))
          /\ ~Printed("Fixed", PathOf(i))
          /\ ~Printed("Error", PathOf(i))

C8_Witness ==
    /\ fix /\ pc = "done" /\ ret = "ok"
    /\ skippedFiles = 1 /\ totalFiles = 1
    /\ shouldSkipFile(repoPath)
    /\ \E i \in Files : Skipped(i) /\ NeedsNewline(content[i])

\* number of bytes below 0x20 other than line feed, carriage return and tab
ControlCount(data) ==
    Cardinality({ i \in 1..Len(data) : data[i] < 32 /\ data[i] \notin {9, 10, 13} })

\* the reference classification, in integer arithmetic
RefBinary(data) ==
    /\ Len(data) > 0
    /\ \/ \E i \in 1..Len(data) : data[i] = 0
       \/ 10 * ControlCount(data) > 3 * Len(data)

C10_ThirtyPercentOrMoreIsBinary ==
    (verdict # "none" /\ Len(buf) > 0) =>
        ((verdict = "binary") <=>
            \/ \E i \in 1..Len(buf) : buf[i] = 0
            \/ 10 * ControlCount(buf) >= 3 * Len(buf))

\* the characters of s after its last slash
RECURSIVE LastSegment(_)
LastSegment(s) ==
    IF s = <<>> \/ s[Len(s)] = "/" THEN <<>>
    ELSE Append(LastSegment(SubSeq(s, 1, Len(s) - 1)), s[Len(s)])

\* a segment of s that starts with a dot and is more than the dot: a dot at
\* the start of s or right after a slash, followed by a character that is
\* not a slash
HasHiddenSegment(s) ==
    \E i \in 1..Len(s) :
        /\ s[i] = "."
        /\ (i = 1 \/ s[i - 1] = "/")
        /\ i < Len(s)
        /\ s[i + 1] # "/"

\* the lower-case letter for an upper-case one of the generated paths and
\* of the test paths
LowerOf(c) ==
    CASE c = "O" -> "o" [] c = "I" -> "i" [] c = "M" -> "m" [] c = "A" -> "a"
      [] c = "G" -> "g" [] c = "E" -> "e" [] c = "P" -> "p" [] c = "N" -> "n"
      [] c = "R" -> "r" [] c = "D" -> "d" [] OTHER -> c

\* the final segment has a dot, and from its last dot on it reads, in lower
\* case, as a member of the deny-list
HasDeniedExtension(s) ==
    LET seg == LastSegment(s)
        dots == { i \in 1..Len(seg) : seg[i] = "." }
    IN  /\ dots # {}
        /\ LET d == CHOOSE i \in dots : \A j \in dots : j <= i
               e == [k \in 1..(Len(seg) - d + 1) |-> LowerOf(seg[d + k - 1])]
           IN  e \in { binaryExts[k] : k \in 1..Len(binaryExts) }

\* C11: shouldSkipFile returns true exactly for the paths with a hidden
\* segment or with a final extension that is, in lower case, in the
\* deny-list, and false for every other path.
C11_SkipExactlyHiddenOrDenied ==
    skip # "none" =>
        ((skip = "skip") <=> (HasHiddenSegment(path) \/ HasDeniedExtension(path)))

C11_Witness ==
    /\ skip = "skip"
    /\ ~HasHiddenSegment(path)
    /\ path = <<"I", "M", "A", "G", "E", ".", "P", "N", "G">>

\* the relative paths, in walk order, of the first n entries that are files,
\* not skipped, read without error, and non-empty text without the final
\* line feed
RECURSIVE MissingUpTo(_)
MissingUpTo(n) ==
    IF n = 0 THEN <<>>
    ELSE LET rest == MissingUpTo(n - 1)
         IN  IF /\ n \in Files
                /\ ~Skipped(n)
                /\ NeedsNewline(content[n])
                /\ ~Printed("Error", PathOf(n))
             THEN Append(rest, PathOf(n))
             ELSE rest

\* C12: in check mode the missing-newline list is, at every moment, the
\* paths of the visited files that are not skipped, were read, and are
\* non-empty text without a final line feed, each once and in the order of
\* the visits; the summary reports this list and its length.
C12_MissingListInVisitOrder ==
    ~fix =>
        /\ problematicFiles = MissingUpTo(idx - 1)
        /\ ret = "ok" =>
              /\ out[Len(out)].msg = "Files missing newline"
              /\ out[Len(out)].count = Len(problematicFiles)
              /\ out[Len(out)].list = problematicFiles

C12_Witness ==
    /\ ~fix /\ pc = "done" /\ ret = "ok"
    /\ Len(problematicFiles) = 2
    /\ HasErrorLine(out) = FALSE
    /\ problematicFiles[1] = <<"a", ".", "t", "x", "t">>

\* the files rewritten with success in the current call: visited, not
\* skipped, in need of the line feed when the call began, now holding the
\* original content and one line feed, with no error reported
Rewritten ==
    { i \in Visited :
        /\ ~Skipped(i)
        /\ NeedsNewline(before[i])
        /\ content[i] = before[i] \o <<LF>>
        /\ ~Printed("Error", PathOf(i)) }

\* C13: in fix mode the step that visits a file in need of the line feed
\* either rewrites it, adds one to the fixed counter and prints its "Fixed:"
\* line in that same step, or reports an error, leaves the fixed counter
\* alone and prints no "Fixed:" line; the fixed counter, the "Fixed:" lines
\* and the number in the summary all count the files rewritten with success.
C13_FixedCountedAndPrintedAtOnce ==
    /\ [][(/\ fix /\ pc = "walking" /\ idx \in Files /\ idx' = idx + 1
           /\ ~Skipped(idx)
           /\ NeedsNewline(content[idx])) =>
            \/ /\ content'[idx] = content[idx] \o <<LF>>
               /\ fixedFiles' = fixedFiles + 1
               /\ out' = Append(out, FixedLine(PathOf(idx)))
            \/ /\ fixedFiles' = fixedFiles
               /\ Len(out') = Len(out) + 1
               /\ out'[Len(out')].kind = "Error"
               /\ out'[Len(out')].path = PathOf(idx)]_vars
    /\ [](fix =>
            /\ fixedFiles = Cardinality(Rewritten)
            /\ Count("Fixed") = fixedFiles
            /\ \A i \in Files :
                  Printed("Fixed", PathOf(i)) <=> i \in Rewritten
            /\ ret = "ok" =>
                  /\ out[Len(out)].msg = "Files fixed"
                  /\ out[Len(out)].count = Cardinality(Rewritten))

C13_Witness ==
    /\ fix /\ pc = "done" /\ ret = "ok"
    /\ fixedFiles = 1
    /\ Len(out) = 3
    /\ out[1].kind = "Fixed"
    /\ out[2].msg = "failed to write file"

\* C14: an error the walk reports for any entry ends the call at that
\* entry: the call returns the error in a step that changes no counter, no
\* output and no content; the entries from that one on are never visited,
\* no summary is printed, and the files fixed before it keep their new
\* content.
C14_WalkErrorAborts ==
    /\ [][(ret = "none" /\ ret' = "error") =>
            /\ pc' = "done"
            /\ idx' = idx
            /\ content' = content
            /\ out' = out
            /\ << totalFiles, fixedFiles, skippedFiles, problematicFiles >>'
                 = << totalFiles, fixedFiles, skippedFiles, problematicFiles >>]_vars
    /\ [][ret = "error" => UNCHANGED vars]_vars
    /\ [](ret = "error" =>
            /\ pc = "done"
            /\ Count("Summary") = 0
            /\ totalFiles + skippedFiles = Cardinality(Visited)
            /\ \A i \in Files : i >= idx => content[i] = before[i]
            /\ \A i \in Files :
                  Printed("Fixed", PathOf(i)) => content[i] = before[i] \o <<LF>>)

C14_Witness ==
    /\ ret = "error"
    /\ fix /\ fixedFiles = 1
    /\ idx > 1 /\ idx <= NumEntries
    /\ idx \in Files /\ NeedsNewline(content[idx])

====
